---- MODULE Spec2Model ----
(***************************************************************************)
(* Retrieval core of the Medical Q&A bot (backend/vectorDB.py): the build  *)
(* of the FAISS index at module import (load_knowledge_base) and the query *)
(* path (get_knowledge_base), together with the embedding provider and the *)
(* knowledge-base directory they talk to.                                  *)
(*                                                                         *)
(* Positions of the index are 0-based as in FAISS and Python; TLA+         *)
(* sequences are 1-based, so position p is element p + 1.                  *)
(***************************************************************************)
EXTENDS Integers, Sequences, FiniteSets, TLC

\* ------------------------------------------------------------------ bounds

\* most files in the knowledge-base directory
MaxFiles == 5
\* coordinates the provider's 1-dimensional vectors take: 0..MaxCoord
MaxCoord == 1

\* ------------------------------------------------------- program constants

\* index.search(query_embedding, 4)
K == 4
\* get_knowledge_base's docstring: "the top 3 most relevant documents"
TopDocuments == 3

\* ------------------------------------------------------------- environment

\* file name extensions present in the directory
Extensions == {".html", ".txt"}

\* a file of the directory: its name (stem + extension) and what read() gives
FileName(i, e) == [stem |-> i, ext |-> e]
FileContent(i) == [text |-> "file body", n |-> i]

\* the directory listings os.listdir can give: n files, each of either extension
Listings ==
    UNION {{[i \in 1..n |-> FileName(i, ext[i])] : ext \in [1..n -> Extensions]} : n \in 0..MaxFiles}

\* vectors the embedding provider can answer with: dimension 1, and one of
\* dimension 2 (a provider whose dimension differs from call to call)
ProviderVectors == {<<c>> : c \in 0..MaxCoord} \cup {<<0, 0>>}

\* order in which the index search returns equidistant neighbours
TieOrders == {"low position first", "high position first"}

\* characters of a query; " " and "\t" are whitespace for str.strip()
Whitespace == {" ", "\t"}

\* query arguments of get_knowledge_base: None, or a string
NoneQuery == [none |-> TRUE, chars |-> <<>>]
Str(s) == [none |-> FALSE, chars |-> s]
Queries ==
    {NoneQuery, Str(<<>>), Str(<<" ">>), Str(<<" ", "\t">>),
     Str(<<"q">>), Str(<<" ", "q", " ">>)}

\* ------------------------------------------------------------------- state

VARIABLES
    dirExists,                 \* os.path.exists("./phase2_data")
    listing,                   \* os.listdir("./phase2_data")
    tieOrder,                  \* how the index search orders equidistant vectors
    phase,                     \* "init", "embedding", "serving", "failed"
    error,                     \* the exception that ended the import, or "none"
    documents,                 \* load_knowledge_base: local documents
    embeddings,                \* load_knowledge_base: local embeddings
    embedding_dimension,       \* module global; 0 stands for None
    index,                     \* module global; allocated = FALSE stands for None
    knowledge_base_documents,  \* module global, bound when the build returns
    qpc,                       \* get_knowledge_base: "idle", "embedded", "returned", "raised"
    query,                     \* get_knowledge_base: argument
    query_embedding,           \* get_knowledge_base: local, <<>> before the call
    indices,                   \* get_knowledge_base: local indices[0], <<>> before the search
    result,                    \* what the last call returned, <<>> if nothing
    qerror,                    \* the exception the last call raised, or "none"
    providerLog,               \* history: the provider's answers during the build
    providerFailed,            \* history: the provider failed during the build
    qCalls,                    \* history: provider calls made by the current query
    qSearches,                 \* history: index searches made by the current query
    qProviderFailed,           \* history: the provider failed in the current query
    queryFailedBefore,         \* history: the provider failed in an earlier query
    built,                     \* history: dimension, vectors and documents as the build left them
    other,                     \* the locals of a second caller of get_knowledge_base, not running now
    api,                       \* the last call the backend handled, and how it ended
    form,                      \* Field_Extraction: the last validate_extracted_data call
    session                    \* frontend: st.session_state of one browser session

env == <<dirExists, listing, tieOrder, other, api, form, session>>
buildVars == <<phase, error, documents, embeddings, embedding_dimension, index,
               knowledge_base_documents, providerLog, providerFailed, built>>
queryVars == <<qpc, query, query_embedding, indices, result, qerror,
               qCalls, qSearches, qProviderFailed, queryFailedBefore>>
vars == <<env, buildVars, queryVars>>

NoIndex == [allocated |-> FALSE, d |-> 0, vectors |-> <<>>]

\* validate_extracted_data is not running
NoForm == [pc |-> "idle"]

\* frontend/app.py lines 46-71: a new session holds the assistant's greeting
\* (its first words; text is a sequence of characters, Hebrew letters are
\* written by name), the user information (of its fields hmo_name is the one
\* a text of the frontend reads) and the processing flag; handled lists what
\* the session did with each input
Greeting == <<"he", "yod", "yod", ",", " ", "alef", "nun", "yod">>
NewSession ==
    [conversation_history |-> <<[role |-> "assistant", content |-> Greeting]>>,
     user_info |-> [hmo_name |-> <<>>],
     processing |-> FALSE,
     handled |-> <<>>]

\* nothing handled yet
NoRequest == [endpoint |-> "none", served |-> 0]

\* the locals of a caller that is not inside get_knowledge_base
NoCall ==
    [qpc |-> "idle", query |-> [none |-> TRUE, chars |-> <<>>], query_embedding |-> <<>>,
     indices |-> <<>>, result |-> <<>>, qerror |-> "none",
     qCalls |-> 0, qSearches |-> 0, qProviderFailed |-> FALSE]

Init ==
    /\ dirExists \in BOOLEAN
    /\ listing \in (IF dirExists THEN Listings ELSE {<<>>})
    /\ tieOrder \in TieOrders
    /\ phase = "init"
    /\ error = "none"
    /\ documents = <<>>
    /\ embeddings = <<>>
    /\ embedding_dimension = 0
    /\ index = NoIndex
    /\ knowledge_base_documents = <<>>
    /\ qpc = "idle"
    /\ query = NoneQuery
    /\ query_embedding = <<>>
    /\ indices = <<>>
    /\ result = <<>>
    /\ qerror = "none"
    /\ providerLog = <<>>
    /\ providerFailed = FALSE
    /\ qCalls = 0
    /\ qSearches = 0
    /\ qProviderFailed = FALSE
    /\ queryFailedBefore = FALSE
    /\ built = [d |-> 0, vectors |-> <<>>, documents |-> <<>>]
    /\ other = NoCall
    /\ api = NoRequest
    /\ form = NoForm
    /\ session = NewSession

\* --------------------------------------------------------- build: helpers

\* f.endswith(".html")
EndsWithHtml(f) == f.ext = ".html"

\* variant: html_files = os.listdir(directory)
AllFiles(names) == names
\* html_files = [f for f in os.listdir(directory) if f.endswith(".html")]
html_files(names) == SelectSeq(names, EndsWithHtml)

\* documents.append((filename, content)) for every file of html_files
ReadDocuments(files) == [i \in 1..Len(files) |-> <<files[i], FileContent(files[i].stem)>>]

\* the import raises: nothing after the raise runs, the module is never bound
RaiseAtImport(exc) ==
    /\ phase' = "failed"
    /\ error' = exc

\* variant: embeddings.insert(0, embedding)
CollectEmbeddingFront(embs, e) == <<e>> \o embs
\* embeddings.append(embedding)
CollectEmbedding(embs, e) == Append(embs, e)

\* faiss.IndexFlatL2(embedding_dimension)
IndexFlatL2(d) == [allocated |-> TRUE, d |-> d, vectors |-> <<>>]

\* np.vstack(embeddings) succeeds iff there is a row and all rows have one length
CanStack(embs) ==
    /\ Len(embs) > 0
    /\ \A i \in 1..Len(embs) : Len(embs[i]) = Len(embs[1])

\* index.add(x): appends the rows of x; the rows must have the index's dimension
CanAdd(idx, rows) == idx.allocated /\ \A i \in 1..Len(rows) : Len(rows[i]) = idx.d
IndexAdd(idx, rows) == [idx EXCEPT !.vectors = @ \o rows]

\* --------------------------------------------------------- build: actions

\* variant: lines 77-97 without the two checks that raise ValueError
LoadEnumerateUnchecked ==
    /\ phase = "init"
    /\ documents' = ReadDocuments(html_files(listing))
    /\ phase' = "embedding"
    /\ UNCHANGED <<error, embeddings, embedding_dimension, index,
                   knowledge_base_documents, providerLog, providerFailed, built>>
    /\ UNCHANGED <<env, queryVars>>
\* lines 77-97: the directory check, the listing, the reads
LoadEnumerate ==
    /\ phase = "init"
    /\ IF ~dirExists
         THEN RaiseAtImport("ValueError: directory not found") /\ UNCHANGED documents
         ELSE IF html_files(listing) = <<>>
                THEN RaiseAtImport("ValueError: no HTML files") /\ UNCHANGED documents
                ELSE /\ documents' = ReadDocuments(html_files(listing))
                     /\ phase' = "embedding"
                     /\ UNCHANGED error
    /\ UNCHANGED <<embeddings, embedding_dimension, index,
                   knowledge_base_documents, providerLog, providerFailed, built>>
    /\ UNCHANGED <<env, queryVars>>

\* variant: every vector is added to the index in the iteration that obtained it
EmbedDocumentAddsAtOnce ==
    /\ phase = "embedding"
    /\ Len(embeddings) < Len(documents)
    /\ \E v \in ProviderVectors :
         LET doc == documents[Len(embeddings) + 1] IN
         /\ providerLog' = Append(providerLog, [text |-> doc[2], vector |-> v])
         /\ IF embedding_dimension = 0
              THEN /\ embedding_dimension' = Len(v)
                   /\ index' = IndexAdd(IndexFlatL2(Len(v)), <<v>>)
              ELSE /\ UNCHANGED embedding_dimension
                   /\ index' = IndexAdd(index, <<v>>)
         /\ embeddings' = CollectEmbedding(embeddings, v)
    /\ UNCHANGED <<phase, error, documents, knowledge_base_documents, providerFailed, built>>
    /\ UNCHANGED <<env, queryVars>>
\* lines 102-112, one iteration whose generate_embeddings call answers v
EmbedDocument ==
    /\ phase = "embedding"
    /\ Len(embeddings) < Len(documents)
    /\ \E v \in ProviderVectors :
         LET doc == documents[Len(embeddings) + 1] IN
         /\ providerLog' = Append(providerLog, [text |-> doc[2], vector |-> v])
         /\ IF embedding_dimension = 0
              THEN /\ embedding_dimension' = Len(v)
                   /\ index' = IndexFlatL2(Len(v))
              ELSE UNCHANGED <<embedding_dimension, index>>
         /\ embeddings' = CollectEmbedding(embeddings, v)
    /\ UNCHANGED <<phase, error, documents, knowledge_base_documents, providerFailed, built>>
    /\ UNCHANGED <<env, queryVars>>

\* variant: the failure of generate_embeddings is caught and a zero vector
\* stands in for the document
EmbedDocumentSkips ==
    /\ phase = "embedding"
    /\ Len(embeddings) < Len(documents)
    /\ providerFailed' = TRUE
    /\ embeddings' = CollectEmbedding(embeddings, <<0>>)
    /\ UNCHANGED <<phase, error, documents, embedding_dimension, index,
                   knowledge_base_documents, providerLog, built>>
    /\ UNCHANGED <<env, queryVars>>
\* lines 102-104, one iteration whose generate_embeddings call raises
EmbedDocumentFails ==
    /\ phase = "embedding"
    /\ Len(embeddings) < Len(documents)
    /\ providerFailed' = TRUE
    /\ RaiseAtImport("provider error")
    /\ UNCHANGED <<documents, embeddings, embedding_dimension, index,
                   knowledge_base_documents, providerLog, built>>
    /\ UNCHANGED <<env, queryVars>>

\* variant: a vector cut or zero-padded to d coordinates
Fit(v, d) == [i \in 1..d |-> IF i <= Len(v) THEN v[i] ELSE 0]
\* variant: lines 115-119 with every row fitted to the index's dimension
AddToIndexFitted ==
    /\ phase = "embedding"
    /\ Len(embeddings) = Len(documents)
    /\ Len(embeddings) > 0
    /\ index' = IndexAdd(index, [i \in 1..Len(embeddings) |-> Fit(embeddings[i], index.d)])
    /\ knowledge_base_documents' = documents
    /\ built' = [d |-> embedding_dimension, vectors |-> index'.vectors,
                 documents |-> documents]
    /\ phase' = "serving"
    /\ UNCHANGED <<error, documents, embeddings, embedding_dimension, providerLog,
                   providerFailed>>
    /\ UNCHANGED <<env, queryVars>>
\* lines 115-119: index.add(np.vstack(embeddings)); return documents;
\* knowledge_base_documents = load_knowledge_base()
AddToIndex ==
    /\ phase = "embedding"
    /\ Len(embeddings) = Len(documents)
    /\ IF CanStack(embeddings) /\ CanAdd(index, embeddings)
         THEN /\ index' = IndexAdd(index, embeddings)
              /\ knowledge_base_documents' = documents
              /\ built' = [d |-> embedding_dimension, vectors |-> index'.vectors,
                            documents |-> documents]
              /\ phase' = "serving"
              /\ UNCHANGED error
         ELSE /\ RaiseAtImport("ValueError: vstack")
              /\ UNCHANGED <<index, knowledge_base_documents, built>>
    /\ UNCHANGED <<documents, embeddings, embedding_dimension, providerLog, providerFailed>>
    /\ UNCHANGED <<env, queryVars>>

Build == LoadEnumerate \/ EmbedDocument \/ EmbedDocumentFails \/ AddToIndex

\* --------------------------------------------------------- query: helpers

\* query.strip(): the string without its leading and trailing whitespace
RECURSIVE LStrip(_)
LStrip(s) == IF s # <<>> /\ Head(s) \in Whitespace THEN LStrip(Tail(s)) ELSE s
RECURSIVE RStrip(_)
RStrip(s) ==
    IF s # <<>> /\ s[Len(s)] \in Whitespace THEN RStrip(SubSeq(s, 1, Len(s) - 1)) ELSE s
Strip(s) == RStrip(LStrip(s))

\* variant: not query
IsBlankNoStrip(q) == q.none \/ q.chars = <<>>
\* not query or query.strip() == ""
IsBlank(q) == q.none \/ q.chars = <<>> \/ Strip(q.chars) = <<>>

\* the two placeholder entries
NoDocumentName == [stem |-> 0, ext |-> ".html"]
\* variant: return []
EmptyResult == <<>>
NoQuestionFallback ==
    <<  <<NoDocumentName,
          [text |-> "Please ask a specific question about medical services.", n |-> 0]>>  >>
NotFoundFallback ==
    <<  <<NoDocumentName,
          [text |-> "I couldn't find information related to your question in my knowledge base.",
           n |-> 0]>>  >>

\* squared L2 distance of two vectors of one length
RECURSIVE SumSq(_, _, _)
SumSq(u, v, i) == IF i = 0 THEN 0 ELSE (u[i] - v[i]) * (u[i] - v[i]) + SumSq(u, v, i - 1)
L2Sqr(u, v) == SumSq(u, v, Len(u))

\* stored vector i comes before stored vector j in the search's answer
ComesBefore(vectors, q, i, j) ==
    \/ L2Sqr(vectors[i], q) < L2Sqr(vectors[j], q)
    \/ /\ L2Sqr(vectors[i], q) = L2Sqr(vectors[j], q)
       /\ IF tieOrder = "low position first" THEN i < j ELSE i > j

\* variant: a search whose order of equidistant vectors depends on whether the
\* caller already holds an answer
SearchUnstable(idx, x, k) ==
    LET n == Len(idx.vectors)
        low == (tieOrder = "low position first") = (indices = <<>>)
        before(i, j) ==
            \/ L2Sqr(idx.vectors[i], x) < L2Sqr(idx.vectors[j], x)
            \/ /\ L2Sqr(idx.vectors[i], x) = L2Sqr(idx.vectors[j], x)
               /\ IF low THEN i < j ELSE i > j
        rank(i) == Cardinality({j \in 1..n : before(j, i)})
    IN  [r \in 1..k |->
            IF r <= n THEN (CHOOSE i \in 1..n : rank(i) = r - 1) - 1 ELSE -1]
\* index.search(x, k)[1][0]: the positions (0-based) of the k stored vectors
\* nearest to x, nearest first; -1 in the slots beyond the stored vectors
Search(idx, x, k) ==
    LET n == Len(idx.vectors)
        rank(i) == Cardinality({j \in 1..n : ComesBefore(idx.vectors, x, j, i)})
    IN  [r \in 1..k |->
            IF r <= n THEN (CHOOSE i \in 1..n : rank(i) = r - 1) - 1 ELSE -1]

\* list[idx] of Python: a negative idx counts from the end
PyGetItem(list, idx) == IF idx >= 0 THEN list[idx + 1] ELSE list[Len(list) + idx + 1]

\* lines 148-151: the loop over indices[0]
RECURSIVE ClosestDocuments(_, _)
ClosestDocuments(ixs, docs) ==
    IF ixs = <<>> THEN <<>>
    ELSE (IF Head(ixs) < Len(docs) THEN <<PyGetItem(docs, Head(ixs))>> ELSE <<>>)
         \o ClosestDocuments(Tail(ixs), docs)

\* lines 153-157
ResultOf(closest_documents) ==
    IF closest_documents = <<>> THEN NotFoundFallback ELSE closest_documents

\* --------------------------------------------------------- query: actions

\* variant: get_knowledge_base callable while the import is still running
CanCallAnytime == qpc = "idle"
\* get_knowledge_base exists once line 121 has run, after line 119 returned
CanCall == phase = "serving" /\ qpc = "idle"

\* the locals of a fresh call
EnterCall(q) ==
    /\ query' = q
    /\ indices' = <<>>
    /\ qSearches' = 0

\* lines 136-138: a blank query returns at once
QueryBlank ==
    /\ CanCall
    /\ \E q \in Queries :
         /\ IsBlank(q)
         /\ EnterCall(q)
         /\ query_embedding' = <<>>
         /\ result' = NoQuestionFallback
         /\ qerror' = "none"
         /\ qpc' = "returned"
         /\ qCalls' = 0
         /\ qProviderFailed' = FALSE
    /\ UNCHANGED <<queryFailedBefore, env, buildVars>>

\* lines 140-141: generate_embeddings(query) answers v
QueryEmbed ==
    /\ CanCall
    /\ \E q \in Queries, v \in ProviderVectors :
         /\ ~IsBlank(q)
         /\ EnterCall(q)
         /\ query_embedding' = v
         /\ result' = <<>>
         /\ qerror' = "none"
         /\ qpc' = "embedded"
         /\ qCalls' = 1
         /\ qProviderFailed' = FALSE
    /\ UNCHANGED <<queryFailedBefore, env, buildVars>>

\* variant: the failure of generate_embeddings is caught and the placeholder returned
QueryEmbedSwallowed ==
    /\ CanCall
    /\ \E q \in Queries :
         /\ ~IsBlank(q)
         /\ EnterCall(q)
         /\ query_embedding' = <<>>
         /\ result' = NotFoundFallback
         /\ qerror' = "none"
         /\ qpc' = "returned"
         /\ qCalls' = 1
         /\ qProviderFailed' = TRUE
         /\ queryFailedBefore' = TRUE
    /\ UNCHANGED <<env, buildVars>>
\* variant: generate_embeddings is called a second time after it raised, and answers
QueryEmbedRetried ==
    /\ CanCall
    /\ \E q \in Queries, v \in ProviderVectors :
         /\ ~IsBlank(q)
         /\ EnterCall(q)
         /\ query_embedding' = v
         /\ result' = <<>>
         /\ qerror' = "none"
         /\ qpc' = "embedded"
         /\ qCalls' = 2
         /\ qProviderFailed' = TRUE
         /\ queryFailedBefore' = TRUE
    /\ UNCHANGED <<env, buildVars>>
\* lines 140-141: generate_embeddings(query) raises, and so does the call
QueryEmbedFails ==
    /\ CanCall
    /\ \E q \in Queries :
         /\ ~IsBlank(q)
         /\ EnterCall(q)
         /\ query_embedding' = <<>>
         /\ result' = <<>>
         /\ qpc' = "raised"
         /\ qerror' = "provider error"
         /\ qCalls' = 1
         /\ qProviderFailed' = TRUE
         /\ queryFailedBefore' = TRUE
    /\ UNCHANGED <<env, buildVars>>

\* variant: lines 145-157 with the query vector fitted to the index's dimension
QuerySearchFitted ==
    /\ phase = "serving"
    /\ qpc = "embedded"
    /\ qSearches' = 1
    /\ indices' = Search(index, Fit(query_embedding, index.d), K)
    /\ result' = ResultOf(ClosestDocuments(indices', knowledge_base_documents))
    /\ qpc' = "returned"
    /\ UNCHANGED <<qerror, query, query_embedding, qCalls, qProviderFailed, queryFailedBefore>>
    /\ UNCHANGED <<env, buildVars>>
\* variant: the query vector is kept in a module global, which the latest
\* generate_embeddings call of any caller has overwritten
QuerySearchSharedVector ==
    LET latest == IF other.qpc = "embedded" THEN other.query_embedding ELSE query_embedding
    IN  /\ phase = "serving"
        /\ qpc = "embedded"
        /\ qSearches' = 1
        /\ IF Len(latest) # index.d
             THEN /\ qpc' = "raised"
                  /\ qerror' = "AssertionError"
                  /\ UNCHANGED <<indices, result>>
             ELSE /\ indices' = Search(index, latest, K)
                  /\ result' = ResultOf(ClosestDocuments(indices', knowledge_base_documents))
                  /\ qpc' = "returned"
                  /\ UNCHANGED qerror
        /\ UNCHANGED <<query, query_embedding, qCalls, qProviderFailed, queryFailedBefore>>
        /\ UNCHANGED <<env, buildVars>>
\* lines 145-157: the search, the loop over its answer, the return.
\* index.search raises when the query vector has not the index's dimension.
QuerySearch ==
    /\ phase = "serving"
    /\ qpc = "embedded"
    /\ qSearches' = 1
    /\ IF Len(query_embedding) # index.d
         THEN /\ qpc' = "raised"
              /\ qerror' = "AssertionError"
              /\ UNCHANGED <<indices, result>>
         ELSE /\ indices' = Search(index, query_embedding, K)
              /\ result' = ResultOf(ClosestDocuments(indices', knowledge_base_documents))
              /\ qpc' = "returned"
              /\ UNCHANGED qerror
    /\ UNCHANGED <<query, query_embedding, qCalls, qProviderFailed, queryFailedBefore>>
    /\ UNCHANGED <<env, buildVars>>

\* the call is over: the caller (openai_integration.get_openai_response, line 105)
\* has the list or the exception, and the locals are gone
QueryLeave ==
    /\ qpc \in {"returned", "raised"}
    /\ qpc' = "idle"
    /\ query' = NoneQuery
    /\ query_embedding' = <<>>
    /\ indices' = <<>>
    /\ result' = <<>>
    /\ qerror' = "none"
    /\ qCalls' = 0
    /\ qSearches' = 0
    /\ qProviderFailed' = FALSE
    /\ UNCHANGED <<queryFailedBefore, env, buildVars>>

Query == QueryBlank \/ QueryEmbed \/ QueryEmbedFails \/ QuerySearch \/ QueryLeave

Next == Build \/ Query

Spec == Init /\ [][Next]_vars


\* ------------------------------------------- a second call of the build

\* most repeated calls of load_knowledge_base after the import
MaxReloads == 1

\* successful repeated calls so far: each adds one vector per document
ReloadsDone == (Len(index.vectors) \div Len(knowledge_base_documents)) - 1

\* lines 59-116, called again once the import is over: embedding_dimension is
\* not None, so line 110 does not run and line 115 adds to the index of the
\* import. A failing provider call, np.vstack or index.add raises to the caller
\* before line 115 has changed anything. The list the call returns is the
\* caller's; the module's knowledge_base_documents is bound at line 119 only.
ReloadKnowledgeBase ==
    /\ phase = "serving"
    /\ qpc = "idle"
    /\ ReloadsDone < MaxReloads
    /\ \E fails \in BOOLEAN,
          vs \in [1..Len(ReadDocuments(html_files(listing))) -> ProviderVectors] :
         IF ~fails /\ CanStack(vs) /\ CanAdd(index, vs)
           THEN index' = IndexAdd(index, vs)
           ELSE UNCHANGED index
    /\ UNCHANGED <<phase, error, documents, embeddings, embedding_dimension,
                   knowledge_base_documents, providerLog, providerFailed, built>>
    /\ UNCHANGED <<env, queryVars>>

NextReload == Build \/ Query \/ ReloadKnowledgeBase

SpecReload == Init /\ [][NextReload]_vars


\* ------------------------------------------- the same query asked again

\* lines 136-157 as one step: the caller that holds the answer to query calls
\* get_knowledge_base(query) again and generate_embeddings answers as before
QueryAgain ==
    /\ phase = "serving"
    /\ qpc = "returned"
    /\ IF IsBlank(query)
         THEN /\ result' = NoQuestionFallback
              /\ UNCHANGED indices
         ELSE /\ Len(query_embedding) = index.d
              /\ indices' = Search(index, query_embedding, K)
              /\ result' = ResultOf(ClosestDocuments(indices', knowledge_base_documents))
    /\ UNCHANGED <<qpc, query, query_embedding, qerror, qCalls, qSearches,
                   qProviderFailed, queryFailedBefore>>
    /\ UNCHANGED <<env, buildVars>>

NextRepeat == Build \/ Query \/ QueryAgain

SpecRepeat == Init /\ [][NextRepeat]_vars


\* ------------------------------------------- two callers, no lock

\* most files of the directory when two callers are followed
MaxSmallFiles == 2

InitSmall == Init /\ Len(listing) <= MaxSmallFiles

\* the caller that runs stops where it is and the second caller goes on: the
\* locals of get_knowledge_base (lines 121-157) belong to each call, the index,
\* the dimension and the document list (lines 17-20, 119) to the module
Switch ==
    /\ phase = "serving"
    /\ other' = [qpc |-> qpc, query |-> query, query_embedding |-> query_embedding,
                 indices |-> indices, result |-> result, qerror |-> qerror,
                 qCalls |-> qCalls, qSearches |-> qSearches,
                 qProviderFailed |-> qProviderFailed]
    /\ qpc' = other.qpc
    /\ query' = other.query
    /\ query_embedding' = other.query_embedding
    /\ indices' = other.indices
    /\ result' = other.result
    /\ qerror' = other.qerror
    /\ qCalls' = other.qCalls
    /\ qSearches' = other.qSearches
    /\ qProviderFailed' = other.qProviderFailed
    /\ UNCHANGED <<queryFailedBefore, dirExists, listing, tieOrder, api, form, session,
                   buildVars>>

NextConcurrent == Build \/ Query \/ Switch

SpecConcurrent == InitSmall /\ [][NextConcurrent]_vars


\* ------------------------------------------- the chat layer (openai_integration.py)

\* most messages of a conversation history
MaxHistory == 2

\* message texts, as characters: blank, a question, a confirmation, the
\* assistant asking for the age, an age
Contents == {<<" ">>, <<"q">>, <<"O", "k">>, <<"a", "g", "e">>, <<"7">>}
Roles == {"user", "assistant", "system"}
Messages == [role : Roles, content : Contents]
Histories == UNION {[1..n -> Messages] : n \in 0..MaxHistory}

\* UserInfo.model_dump() as the endpoints are given it: the text fields empty
\* (text is a sequence of characters), the age, the conversation history
Ages == {0, 5}
UserInfos ==
    [first_name : {<<>>}, last_name : {<<>>}, id_number : {<<>>}, gender : {<<>>},
     age : Ages, hmo_name : {<<>>}, hmo_card_number : {<<>>}, membership_tier : {<<>>},
     conversation_history : Histories]

\* what the embedding provider and the chat model answer: a value or an exception
EmbeddingAnswers ==
    {[ok |-> TRUE, v |-> v] : v \in ProviderVectors} \cup {[ok |-> FALSE, v |-> <<>>]}
ChatAnswers == {[ok |-> TRUE, text |-> "answer"], [ok |-> FALSE, text |-> ""]}

\* phase arguments: the two the function knows, and another string
Phases == {"info_collection", "qna", "summary"}

\* vectorDB.py lines 121-157 as a function of the query, the provider's answer,
\* the index and the document list: the exception or the list, and the
\* provider calls made
KnowledgeBaseCall(q, emb, idx, docs) ==
    IF IsBlank(q)
      THEN [raised |-> "none", value |-> NoQuestionFallback, calls |-> <<>>]
      ELSE LET called == <<[provider |-> "embeddings", input |-> q, answer |-> emb]>>
           IN  IF ~emb.ok
                 THEN [raised |-> "provider error", value |-> <<>>, calls |-> called]
               ELSE IF Len(emb.v) # idx.d
                 THEN [raised |-> "AssertionError", value |-> <<>>, calls |-> called]
               ELSE [raised |-> "none",
                     value |-> ResultOf(ClosestDocuments(Search(idx, emb.v, K), docs)),
                     calls |-> called]

\* lines 182-186: user messages stay user, system messages become assistant,
\* messages of any other role are left out
RECURSIVE HistoryMessages(_)
HistoryMessages(h) ==
    IF h = <<>> THEN <<>>
    ELSE (IF Head(h).role = "user"
            THEN <<[role |-> "user", text |-> Head(h).content]>>
          ELSE IF Head(h).role = "system"
            THEN <<[role |-> "assistant", text |-> Head(h).content]>>
          ELSE <<>>)
         \o HistoryMessages(Tail(h))

\* lines 168-198: the messages, the chat-model call, the answer or its exception
ChatCompletion(prompt, user_info, chat, retrieval) ==
    LET messages == <<[role |-> "system", text |-> prompt]>>
                    \o HistoryMessages(user_info.conversation_history)
        calls == retrieval.calls
                 \o <<[provider |-> "chat", input |-> messages, answer |-> chat]>>
    IN  [raised |-> IF chat.ok THEN "none" ELSE "chat error",
         value |-> chat.text, calls |-> calls, retrievals |-> retrieval.n]

\* lines 51-98 and 121-164: the two prompts
InfoCollectionPrompt(user_info) == [kind |-> "info_collection", user_info |-> user_info]
QnaPrompt(user_info, q, context) ==
    [kind |-> "qna", user_info |-> user_info, query |-> q, context |-> context]

\* variant: the knowledge base is consulted in both phases
get_openai_response_always_retrieves(user_info, ph, q, emb, chat, idx, docs) ==
    LET kb == KnowledgeBaseCall(q, emb, idx, docs)
    IN  IF ph \in {"info_collection", "qna"}
          THEN IF kb.raised # "none"
                 THEN [raised |-> kb.raised, value |-> "", calls |-> kb.calls, retrievals |-> 1]
                 ELSE ChatCompletion(IF ph = "qna" THEN QnaPrompt(user_info, q, kb.value)
                                                   ELSE InfoCollectionPrompt(user_info),
                                     user_info, chat, [calls |-> kb.calls, n |-> 1])
        ELSE [raised |-> "ValueError", value |-> "", calls |-> <<>>, retrievals |-> 0]
\* variant: a phase the function does not know is served as "info_collection"
get_openai_response_any_phase(user_info, ph, q, emb, chat, idx, docs) ==
    LET kb == KnowledgeBaseCall(q, emb, idx, docs)
    IN  IF ph = "qna"
          THEN IF kb.raised # "none"
                 THEN [raised |-> kb.raised, value |-> "", calls |-> kb.calls, retrievals |-> 1]
                 ELSE ChatCompletion(QnaPrompt(user_info, q, kb.value), user_info, chat,
                                     [calls |-> kb.calls, n |-> 1])
          ELSE ChatCompletion(InfoCollectionPrompt(user_info), user_info, chat,
                              [calls |-> <<>>, n |-> 0])
\* lines 31-198: get_openai_response(user_info, phase, query), with the answers
\* the two providers give if asked and the index and documents of vectorDB:
\* the exception or the text returned, the provider calls made in their
\* order, and the number of get_knowledge_base calls
get_openai_response(user_info, ph, q, emb, chat, idx, docs) ==
    LET kb == KnowledgeBaseCall(q, emb, idx, docs)
    IN  IF ph = "info_collection"
          THEN ChatCompletion(InfoCollectionPrompt(user_info), user_info, chat,
                              [calls |-> <<>>, n |-> 0])
        ELSE IF ph = "qna"
          THEN IF kb.raised # "none"
                 THEN [raised |-> kb.raised, value |-> "", calls |-> kb.calls, retrievals |-> 1]
                 ELSE ChatCompletion(QnaPrompt(user_info, q, kb.value), user_info, chat,
                                     [calls |-> kb.calls, n |-> 1])
        ELSE [raised |-> "ValueError", value |-> "", calls |-> <<>>, retrievals |-> 0]

\* the backend is up (the import of vectorDB is over) and handles nothing
CanHandle == phase = "serving" /\ api.endpoint = "none"

\* a caller inside the backend calls get_openai_response with any phase
CallGetOpenaiResponse ==
    /\ CanHandle
    /\ \E u \in UserInfos, ph \in Phases, q \in Queries,
          emb \in EmbeddingAnswers, chat \in ChatAnswers :
         api' = [endpoint |-> "get_openai_response", served |-> api.served,
                 user_info |-> u, phase |-> ph, query |-> q,
                 outcome |-> get_openai_response(u, ph, q, emb, chat, index,
                                                 knowledge_base_documents)]
    /\ UNCHANGED <<dirExists, listing, tieOrder, form, session, other, buildVars, queryVars>>

\* get_openai_response is over: its result is with the caller, its locals are gone
ReturnToCaller ==
    /\ api.endpoint = "get_openai_response"
    /\ api' = [endpoint |-> "none", served |-> api.served]
    /\ UNCHANGED <<dirExists, listing, tieOrder, form, session, other, buildVars, queryVars>>

NextPhase == Build \/ CallGetOpenaiResponse \/ ReturnToCaller

SpecPhase == InitSmall /\ [][NextPhase]_vars


\* ------------------------------------------- the endpoints (main.py)

\* most earlier requests the backend counts
MaxRequests == 1

Endpoints == {"collect_info", "qa", "check_confirmation", "health"}

\* str.lower(), for the ASCII letters
UpperCase == <<"A", "B", "C", "D", "E", "F", "G", "H", "I", "J", "K",
              "L", "M", "N", "O", "P", "Q", "R", "S", "T", "U", "V", "W", "X", "Y", "Z">>
LowerCase == <<"a", "b", "c", "d", "e", "f", "g", "h", "i", "j", "k",
              "l", "m", "n", "o", "p", "q", "r", "s", "t", "u", "v", "w", "x", "y", "z">>
LowerChar(c) ==
    IF \E i \in 1..26 : UpperCase[i] = c
      THEN LowerCase[CHOOSE i \in 1..26 : UpperCase[i] = c]
      ELSE c
Lower(s) == [i \in 1..Len(s) |-> LowerChar(s[i])]

\* keyword in message
Contains(s, kw) == \E i \in 0..(Len(s) - Len(kw)) : SubSeq(s, i + 1, i + Len(kw)) = kw
AnyKeyword(kws, s) == \E kw \in kws : Contains(s, kw)

\* lines 236-242; the Hebrew keywords have no letter in Contents and are left out
confirmation_keywords ==
    {<<"y", "e", "s">>, <<"c", "o", "r", "r", "e", "c", "t">>,
     <<"c", "o", "n", "f", "i", "r", "m">>, <<"c", "o", "n", "f", "i", "r", "m", "e", "d">>,
     <<"r", "i", "g", "h", "t">>, <<"o", "k">>, <<"o", "k", "a", "y">>, <<"s", "u", "r", "e">>,
     <<"g", "o", "o", "d">>, <<"f", "i", "n", "e">>, <<"p", "e", "r", "f", "e", "c", "t">>,
     <<"e", "x", "a", "c", "t", "l", "y">>, <<"y", "e", "p">>, <<"y", "e", "a", "h">>}

\* lines 77, 86, 92, 100, 111, 123, 129: the English keywords of the seven
\* branches (the Hebrew ones have no letter in the modelled texts)
name_keywords ==
    {<<"f", "i", "r", "s", "t", " ", "n", "a", "m", "e">>,
     <<"l", "a", "s", "t", " ", "n", "a", "m", "e">>,
     <<"f", "u", "l", "l", " ", "n", "a", "m", "e">>}
id_keywords ==
    {<<"i", "d", " ", "n", "u", "m", "b", "e", "r">>,
     <<"i", "d", "e", "n", "t", "i", "f", "i", "c", "a", "t", "i", "o", "n">>}
gender_keywords == {<<"g", "e", "n", "d", "e", "r">>, <<"s", "e", "x">>}
age_keywords == {<<"a", "g", "e">>, <<"h", "o", "w", " ", "o", "l", "d">>}
hmo_keywords == {<<"h", "m", "o">>, <<"h", "e", "a", "l", "t", "h", " ", "f", "u", "n", "d">>}
card_keywords == {<<"c", "a", "r", "d", " ", "n", "u", "m", "b", "e", "r">>}
tier_keywords ==
    {<<"t", "i", "e", "r">>,
     <<"m", "e", "m", "b", "e", "r", "s", "h", "i", "p", " ", "l", "e", "v", "e", "l">>,
     <<"i", "n", "s", "u", "r", "a", "n", "c", "e", " ", "l", "e", "v", "e", "l">>}

\* lines 94-97: the terms looked for in the answer, and the values assigned
male_terms == {<<"m", "a", "l", "e">>, <<"m", "a", "n">>}
female_terms == {<<"f", "e", "m", "a", "l", "e">>, <<"w", "o", "m", "a", "n">>}
Male == <<"M", "a", "l", "e">>
Female == <<"F", "e", "m", "a", "l", "e">>

\* lines 113-120 and 131-136: the names looked for in the answer, in the order
\* of the tests, each with the value assigned (a Hebrew name in the code,
\* written here in Latin letters)
hmo_names ==
    <<[term |-> <<"m", "a", "c", "c", "a", "b", "i">>, value |-> <<"M", "a", "c", "c", "a", "b", "i">>],
      [term |-> <<"c", "l", "a", "l", "i", "t">>, value |-> <<"C", "l", "a", "l", "i", "t">>],
      [term |-> <<"m", "e", "u", "c", "h", "e", "d", "e", "t">>,
       value |-> <<"M", "e", "u", "h", "e", "d", "e", "t">>],
      [term |-> <<"l", "e", "u", "m", "i", "t">>, value |-> <<"L", "e", "u", "m", "i", "t">>]>>
tier_names ==
    <<[term |-> <<"g", "o", "l", "d">>, value |-> <<"G", "o", "l", "d">>],
      [term |-> <<"s", "i", "l", "v", "e", "r">>, value |-> <<"S", "i", "l", "v", "e", "r">>],
      [term |-> <<"b", "r", "o", "n", "z", "e">>, value |-> <<"B", "r", "o", "n", "z", "e">>]>>

\* c.isdigit(), int(digits)
Digits == <<"0", "1", "2", "3", "4", "5", "6", "7", "8", "9">>
IsDigit(c) == \E i \in 1..10 : Digits[i] = c
DigitValue(c) == (CHOOSE i \in 1..10 : Digits[i] = c) - 1
RECURSIVE DigitsOf(_)
DigitsOf(s) ==
    IF s = <<>> THEN <<>>
    ELSE (IF IsDigit(Head(s)) THEN <<Head(s)>> ELSE <<>>) \o DigitsOf(Tail(s))
RECURSIVE IntOf(_)
IntOf(ds) ==
    IF ds = <<>> THEN 0 ELSE 10 * IntOf(SubSeq(ds, 1, Len(ds) - 1)) + DigitValue(ds[Len(ds)])

\* user_response.split(): the words between runs of whitespace
WordEnd(t) ==
    IF \E i \in 1..Len(t) : t[i] \in Whitespace
      THEN CHOOSE i \in 1..Len(t) :
               t[i] \in Whitespace /\ \A j \in 1..(i - 1) : t[j] \notin Whitespace
      ELSE Len(t) + 1
RECURSIVE Split(_)
Split(s) ==
    LET t == LStrip(s)
    IN  IF t = <<>> THEN <<>>
        ELSE <<SubSeq(t, 1, WordEnd(t) - 1)>> \o Split(SubSeq(t, WordEnd(t), Len(t)))
\* " ".join(parts)
RECURSIVE Join(_)
Join(parts) ==
    IF parts = <<>> THEN <<>>
    ELSE IF Len(parts) = 1 THEN parts[1]
    ELSE parts[1] \o <<" ">> \o Join(Tail(parts))

\* the value of the first entry of names whose term is in the answer, or the
\* value the field has
FirstNamed(names, response_lower, value) ==
    IF \E i \in 1..Len(names) : Contains(response_lower, names[i].term)
      THEN names[CHOOSE i \in 1..Len(names) :
                     /\ Contains(response_lower, names[i].term)
                     /\ \A j \in 1..(i - 1) : ~Contains(response_lower, names[j].term)].value
      ELSE value

\* variant: every field counts as empty
UnsetAlways(text) == TRUE
\* not updated_info[field], for a text field
Unset(text) == text = <<>>

\* lines 77-136: the if/elif chain for one assistant question and its answer
ExtractPair(assistant_msg, user_response, updated_info) ==
    LET name_parts == Split(user_response)
        digits == DigitsOf(user_response)
        response_lower == Lower(user_response)
    IN  IF /\ AnyKeyword(name_keywords, assistant_msg)
           /\ ~(~Unset(updated_info.first_name) /\ ~Unset(updated_info.last_name))
          THEN IF Len(name_parts) >= 2
                 THEN [updated_info EXCEPT !.first_name = name_parts[1],
                                           !.last_name = Join(Tail(name_parts))]
               ELSE IF Len(name_parts) = 1
                 THEN [updated_info EXCEPT !.first_name = name_parts[1]]
               ELSE updated_info
        ELSE IF AnyKeyword(id_keywords, assistant_msg) /\ Unset(updated_info.id_number)
          THEN IF Len(digits) >= 9
                 THEN [updated_info EXCEPT !.id_number = SubSeq(digits, 1, 9)]
                 ELSE updated_info
        ELSE IF AnyKeyword(gender_keywords, assistant_msg) /\ Unset(updated_info.gender)
          THEN IF AnyKeyword(male_terms, response_lower)
                 THEN [updated_info EXCEPT !.gender = Male]
               ELSE IF AnyKeyword(female_terms, response_lower)
                 THEN [updated_info EXCEPT !.gender = Female]
               ELSE updated_info
        ELSE IF AnyKeyword(age_keywords, assistant_msg) /\ updated_info.age = 0
          THEN IF digits # <<>> /\ IntOf(digits) <= 120
                 THEN [updated_info EXCEPT !.age = IntOf(digits)]
                 ELSE updated_info
        ELSE IF AnyKeyword(hmo_keywords, assistant_msg) /\ Unset(updated_info.hmo_name)
          THEN [updated_info EXCEPT
                    !.hmo_name = FirstNamed(hmo_names, response_lower, @)]
        ELSE IF AnyKeyword(card_keywords, assistant_msg)
                /\ Unset(updated_info.hmo_card_number)
          THEN IF Len(digits) >= 8
                 THEN [updated_info EXCEPT !.hmo_card_number = digits]
                 ELSE updated_info
        ELSE IF AnyKeyword(tier_keywords, assistant_msg)
                /\ Unset(updated_info.membership_tier)
          THEN [updated_info EXCEPT
                    !.membership_tier = FirstNamed(tier_names, response_lower, @)]
        ELSE updated_info

\* lines 67-136: the loop over the messages, from message i on: an assistant
\* message followed by a user message whose stripped text is not empty is a
\* question with its answer
RECURSIVE ExtractFrom(_, _, _)
ExtractFrom(conversation, i, updated_info) ==
    IF i > Len(conversation) THEN updated_info
    ELSE LET msg == conversation[i]
             pair == /\ msg.role = "assistant"
                     /\ i + 1 <= Len(conversation)
                     /\ conversation[i + 1].role = "user"
             assistant_msg == Lower(msg.content)
             user_response == Strip(conversation[i + 1].content)
         IN  IF pair /\ user_response # <<>>
               THEN ExtractFrom(conversation, i + 1,
                                ExtractPair(assistant_msg, user_response, updated_info))
               ELSE ExtractFrom(conversation, i + 1, updated_info)

\* lines 42-139: the result is built in a copy (line 57), so the dictionary
\* given stays as it was
extract_user_info(response_text, current_user_info) ==
    IF current_user_info.conversation_history = <<>> THEN current_user_info
    ELSE ExtractFrom(current_user_info.conversation_history, 1, current_user_info)

\* what a handler leaves: the request, the status and body of the response,
\* the provider calls made for it
Handled(endpoint, u, status, body, calls) ==
    [endpoint |-> endpoint, served |-> api.served, user_info |-> u,
     status |-> status, body |-> body, calls |-> calls]

\* lines 141-174: POST /collect_info
CollectInfo ==
    /\ CanHandle
    /\ \E u \in UserInfos, emb \in EmbeddingAnswers, chat \in ChatAnswers :
         LET r == get_openai_response(u, "info_collection", NoneQuery, emb, chat,
                                      index, knowledge_base_documents)
         IN  api' = IF r.raised = "none"
                      THEN Handled("collect_info", u, 200,
                                   [response |-> r.value,
                                    updated_info |-> extract_user_info(r.value, u)],
                                   r.calls)
                      ELSE Handled("collect_info", u, 500, [detail |-> r.raised], r.calls)
    /\ UNCHANGED <<dirExists, listing, tieOrder, form, session, other, buildVars, queryVars>>

\* variant: an empty history asks a default question
LatestQueryOrDefault(u) ==
    IF u.conversation_history # <<>>
      THEN Str(u.conversation_history[Len(u.conversation_history)].content)
      ELSE Str(<<"q">>)
\* line 196: the content of the last message, or "" for an empty history
LatestQuery(u) ==
    IF u.conversation_history # <<>>
      THEN Str(u.conversation_history[Len(u.conversation_history)].content)
      ELSE Str(<<>>)

\* variant: the handler adds the vector of each answered question to the index
QaLearns ==
    /\ CanHandle
    /\ \E u \in UserInfos, emb \in EmbeddingAnswers, chat \in ChatAnswers :
         LET r == get_openai_response(u, "qna", LatestQuery(u), emb, chat,
                                      index, knowledge_base_documents)
         IN  /\ api' = IF r.raised = "none"
                         THEN Handled("qa", u, 200, [response |-> r.value], r.calls)
                         ELSE Handled("qa", u, 500, [detail |-> r.raised], r.calls)
             /\ index' = IF r.raised = "none" /\ Len(r.calls) = 2
                           THEN IndexAdd(index, <<emb.v>>) ELSE index
    /\ UNCHANGED <<phase, error, documents, embeddings, embedding_dimension,
                   knowledge_base_documents, providerLog, providerFailed, built>>
    /\ UNCHANGED <<dirExists, listing, tieOrder, form, session, other, queryVars>>
\* lines 176-206: POST /qa
Qa ==
    /\ CanHandle
    /\ \E u \in UserInfos, emb \in EmbeddingAnswers, chat \in ChatAnswers :
         LET r == get_openai_response(u, "qna", LatestQuery(u), emb, chat,
                                      index, knowledge_base_documents)
         IN  api' = IF r.raised = "none"
                      THEN Handled("qa", u, 200, [response |-> r.value], r.calls)
                      ELSE Handled("qa", u, 500, [detail |-> r.raised], r.calls)
    /\ UNCHANGED <<dirExists, listing, tieOrder, form, session, other, buildVars, queryVars>>

\* lines 208-252: POST /check_confirmation
CheckConfirmation ==
    /\ CanHandle
    /\ \E u \in UserInfos :
         LET h == u.conversation_history
             is_confirmation ==
                 IF h = <<>> THEN FALSE
                 ELSE AnyKeyword(confirmation_keywords, Lower(h[Len(h)].content))
         IN  api' = Handled("check_confirmation", u, 200,
                            [is_confirmation |-> is_confirmation], <<>>)
    /\ UNCHANGED <<dirExists, listing, tieOrder, form, session, other, buildVars, queryVars>>

\* lines 254-262: GET /health
HealthCheck ==
    /\ CanHandle
    /\ api' = [endpoint |-> "health", served |-> api.served,
               status |-> 200, body |-> [status |-> "healthy"], calls |-> <<>>]
    /\ UNCHANGED <<dirExists, listing, tieOrder, form, session, other, buildVars, queryVars>>

\* the response is sent and the handler's locals are gone
Respond ==
    /\ api.endpoint \in Endpoints
    /\ api' = [endpoint |-> "none",
               served |-> IF api.served < MaxRequests THEN api.served + 1 ELSE api.served]
    /\ UNCHANGED <<dirExists, listing, tieOrder, form, session, other, buildVars, queryVars>>

NextBackend == Build \/ CollectInfo \/ Qa \/ CheckConfirmation \/ HealthCheck \/ Respond

SpecBackend == InitSmall /\ [][NextBackend]_vars


\* ------------------------------------------- extract_user_info on its own

\* a knowledge base of one file
InitOneFile ==
    Init /\ dirExists /\ listing = <<FileName(1, ".html")>> /\ tieOrder = "low position first"

\* questions of the assistant: one for each field, and one that names two fields
AssistantTexts ==
    {<<"F", "u", "l", "l", " ", "n", "a", "m", "e">>,
     <<"i", "d", " ", "n", "u", "m", "b", "e", "r">>, <<"g", "e", "n", "d", "e", "r">>,
     <<"a", "g", "e">>, <<"H", "M", "O">>,
     <<"c", "a", "r", "d", " ", "n", "u", "m", "b", "e", "r">>, <<"t", "i", "e", "r">>,
     <<"g", "e", "n", "d", "e", "r", " ", "a", "g", "e">>}
\* answers of the user
UserTexts ==
    {<<"A", "l", " ", "B", "o">>, <<"C", "y">>, <<"1", "2", "3", "4", "5", "6", "7", "8", "9">>,
     <<"m", "a", "l", "e">>, <<"7">>, <<"m", "a", "c", "c", "a", "b", "i">>,
     <<"1", "2", "3", "4", "5", "6", "7", "8">>, <<"g", "o", "l", "d">>, <<" ">>}
ExtractMessages ==
    [role : {"assistant"}, content : AssistantTexts] \cup [role : {"user"}, content : UserTexts]
ExtractHistories == UNION {[1..n -> ExtractMessages] : n \in 0..MaxHistory}

\* user information with each field empty or filled before the call
Profiles ==
    [first_name : {<<>>, <<"Z", "e", "d">>}, last_name : {<<>>, <<"Y", "u">>},
     id_number : {<<>>, <<"9", "8", "7", "6", "5", "4", "3", "2", "1">>},
     gender : {<<>>, Female}, age : Ages,
     hmo_name : {<<>>, <<"C", "l", "a", "l", "i", "t">>},
     hmo_card_number : {<<>>, <<"8", "7", "6", "5", "4", "3", "2", "1">>},
     membership_tier : {<<>>, <<"S", "i", "l", "v", "e", "r">>},
     conversation_history : ExtractHistories]

\* line 57: updated_info is a copy and lines 80-136 assign to its keys only:
\* the dictionary given to the call, as it is after the call
ArgumentAfter(current_user_info, updated_info) == current_user_info

\* main.py line 167: extract_user_info(response, user_info.model_dump())
CallExtractUserInfo ==
    /\ CanHandle
    /\ \E c \in Profiles :
         LET updated_info == extract_user_info("answer", c)
         IN  api' = [endpoint |-> "extract_user_info", served |-> api.served,
                     current_user_info |-> c, updated_info |-> updated_info,
                     argument_after |-> ArgumentAfter(c, updated_info)]
    /\ UNCHANGED <<dirExists, listing, tieOrder, form, session, other, buildVars, queryVars>>

\* extract_user_info has returned
ReturnFromExtract ==
    /\ api.endpoint = "extract_user_info"
    /\ api' = [endpoint |-> "none", served |-> api.served]
    /\ UNCHANGED <<dirExists, listing, tieOrder, form, session, other, buildVars, queryVars>>

NextExtract == Build \/ CallExtractUserInfo \/ ReturnFromExtract

SpecExtract == InitOneFile /\ [][NextExtract]_vars


\* ------------------------------------------- Field_Extraction/validation_schema.py

\* most lexemes of a text given to validate_extracted_data
MaxLexemes == 5

\* Python values: None, a str, an int, a dict with str keys
PyNone == [t |-> "none"]
PyStr(s) == [t |-> "str", s |-> s]
PyInt == [t |-> "int"]
PyDict(items) == [t |-> "dict", items |-> items]
NoItems == [k \in {} |-> PyNone]
Put(items, key, value) ==
    [k \in DOMAIN items \cup {key} |-> IF k = key THEN value ELSE items[k]]

\* lines 169-170: the identifying keys
hebrew_keys ==
    {<<"shin", "final_mem", " ", "mem", "shin", "pe", "het", "he">>,
     <<"shin", "final_mem", " ", "pe", "resh", "tet", "yod">>,
     <<"mem", "samekh", "pe", "resh", " ", "zayin", "he", "vav", "tav">>}
english_keys ==
    {<<"l", "a", "s", "t", "N", "a", "m", "e">>,
     <<"f", "i", "r", "s", "t", "N", "a", "m", "e">>,
     <<"i", "d", "N", "u", "m", "b", "e", "r">>}

\* the lexemes of a JSON text: punctuation, string literals, a number literal
Punct(c) == [kind |-> "punct", text |-> <<c>>]
StringLiteral(s) == [kind |-> "string", text |-> s]
NumberLiteral == [kind |-> "number", text |-> <<"5">>]
Lexemes ==
    {Punct("{"), Punct("}"), Punct(":"), Punct(","), NumberLiteral,
     StringLiteral(<<"i", "d", "N", "u", "m", "b", "e", "r">>),
     StringLiteral(<<"f", "i", "r", "s", "t", "N", "a", "m", "e">>),
     StringLiteral(<<"mem", "samekh", "pe", "resh", " ", "zayin", "he", "vav", "tav">>),
     StringLiteral(<<"1", "2", "3">>), StringLiteral(<<"1", "2", "a">>)}
Texts == UNION {[1..n -> Lexemes] : n \in 0..MaxLexemes}

\* what the function is given: a str (its lexemes), or another object
PyText(lexemes) == [t |-> "text", lexemes |-> lexemes]
DataStrs ==
    {PyText(x) : x \in Texts}
    \cup {PyNone, PyInt, PyDict(NoItems),
          PyDict(Put(NoItems, <<"i", "d", "N", "u", "m", "b", "e", "r">>, PyStr(<<"1", "2", "3">>)))}

\* json.loads: a value is a string, a number, or an object whose members are
\* "key": value pairs separated by commas; the text must hold one value and
\* nothing after it; a key given twice keeps its last value
NoParse == [ok |-> FALSE, value |-> PyNone, rest |-> <<>>]
RECURSIVE ParseValue(_), ParseMembers(_, _), ParseAfterMember(_, _)
ParseValue(ts) ==
    IF ts = <<>> THEN NoParse
    ELSE IF Head(ts).kind = "string"
      THEN [ok |-> TRUE, value |-> PyStr(Head(ts).text), rest |-> Tail(ts)]
    ELSE IF Head(ts).kind = "number"
      THEN [ok |-> TRUE, value |-> PyInt, rest |-> Tail(ts)]
    ELSE IF Head(ts) = Punct("{")
      THEN IF Len(ts) >= 2 /\ ts[2] = Punct("}")
             THEN [ok |-> TRUE, value |-> PyDict(NoItems), rest |-> SubSeq(ts, 3, Len(ts))]
             ELSE ParseMembers(Tail(ts), NoItems)
    ELSE NoParse
ParseMembers(ts, items) ==
    IF Len(ts) >= 3 /\ ts[1].kind = "string" /\ ts[2] = Punct(":")
      THEN LET v == ParseValue(SubSeq(ts, 3, Len(ts)))
           IN  IF v.ok THEN ParseAfterMember(v.rest, Put(items, ts[1].text, v.value))
                       ELSE NoParse
      ELSE NoParse
ParseAfterMember(ts, items) ==
    IF ts = <<>> THEN NoParse
    ELSE IF Head(ts) = Punct("}")
      THEN [ok |-> TRUE, value |-> PyDict(items), rest |-> Tail(ts)]
    ELSE IF Head(ts) = Punct(",") THEN ParseMembers(Tail(ts), items)
    ELSE NoParse
json_loads(lexemes) ==
    LET p == ParseValue(lexemes)
    IN  IF p.ok /\ p.rest = <<>> THEN [raised |-> "none", value |-> p.value]
                                 ELSE [raised |-> "JSONDecodeError", value |-> PyNone]

\* key in data_dict: a key of a dict, a part of a str; TypeError for None and int
KeyIn(key, data_dict) ==
    IF data_dict.t = "dict" THEN key \in DOMAIN data_dict.items
                            ELSE Contains(data_dict.s, key)

\* lines 65-69 and 121-125: the field is a str, and if not empty, all digits
ValidIdNumber(v) == v.t = "str" /\ \A i \in 1..Len(v.s) : IsDigit(v.s[i])

\* Model.model_validate(data_dict) for the identifying fields (texts of
\* MaxLexemes lexemes name no other field of the schema): the fields given
\* must fit, fields not given take their default "", other keys are ignored
ModelValidate(data_dict, last, first, id) ==
    IF data_dict.t # "dict" THEN [raised |-> "ValidationError", value |-> PyNone]
    ELSE LET given == data_dict.items
             field(k) == IF k \in DOMAIN given THEN given[k] ELSE PyStr(<<>>)
         IN  IF field(last).t = "str" /\ field(first).t = "str" /\ ValidIdNumber(field(id))
               THEN [raised |-> "none",
                     value |-> PyDict([k \in {last, first, id} |-> field(k)])]
               ELSE [raised |-> "ValidationError", value |-> PyNone]
HebrewFormModel(data_dict) ==
    ModelValidate(data_dict, <<"shin", "final_mem", " ", "mem", "shin", "pe", "het", "he">>,
                  <<"shin", "final_mem", " ", "pe", "resh", "tet", "yod">>,
                  <<"mem", "samekh", "pe", "resh", " ", "zayin", "he", "vav", "tav">>)
EnglishFormModel(data_dict) ==
    ModelValidate(data_dict, <<"l", "a", "s", "t", "N", "a", "m", "e">>,
                  <<"f", "i", "r", "s", "t", "N", "a", "m", "e">>,
                  <<"i", "d", "N", "u", "m", "b", "e", "r">>)

\* the classes an exception is an instance of
Bases(exc) ==
    IF exc = "JSONDecodeError" THEN {"JSONDecodeError", "ValueError", "Exception"}
    ELSE IF exc = "ValidationError" THEN {"ValidationError", "ValueError", "Exception"}
    ELSE {exc, "Exception"}

\* the text of a message: what the handler puts first, then str(e)
Message(prefix, detail) == [prefix |-> prefix, detail |-> detail]

\* variant: lines 190-193 only
ExceptClausesNarrow ==
    <<[class |-> "JSONDecodeError", prefix |-> "JSON error: "],
      [class |-> "ValueError", prefix |-> "validation error: "]>>
\* lines 190-195: the except clauses, in order
ExceptClauses ==
    <<[class |-> "JSONDecodeError", prefix |-> "JSON error: "],
      [class |-> "ValueError", prefix |-> "validation error: "],
      [class |-> "Exception", prefix |-> "error: "]>>

\* lines 164-188: the body of the try
TryBody(data_str) ==
    LET loaded == IF data_str.t = "text" THEN json_loads(data_str.lexemes)
                                         ELSE [raised |-> "none", value |-> data_str]
        data_dict == loaded.value
        model == IF \E key \in hebrew_keys : KeyIn(key, data_dict)
                   THEN HebrewFormModel(data_dict)
                 ELSE IF \E key \in english_keys : KeyIn(key, data_dict)
                   THEN EnglishFormModel(data_dict)
                 ELSE [raised |-> "none", value |-> PyNone]
        truthy == model.value.t = "dict" /\ DOMAIN model.value.items # {}
    IN  IF loaded.raised # "none" THEN [raised |-> loaded.raised]
        ELSE IF data_dict.t \notin {"dict", "str"} THEN [raised |-> "TypeError"]
        ELSE IF model.raised # "none" THEN [raised |-> model.raised]
        ELSE IF truthy
          THEN [raised |-> "none", is_valid |-> TRUE, validated_data |-> model.value,
                error_message |-> Message("", "")]
          ELSE [raised |-> "none", is_valid |-> FALSE, validated_data |-> PyNone,
                error_message |-> Message("no identification fields", "")]

\* lines 137-195
validate_extracted_data(data_str) ==
    LET body == TryBody(data_str)
        catching == {i \in 1..Len(ExceptClauses) : ExceptClauses[i].class \in Bases(body.raised)}
        first == CHOOSE i \in catching : \A j \in catching : i <= j
    IN  IF body.raised = "none" THEN body
        ELSE IF catching = {}
          THEN [raised |-> body.raised, is_valid |-> FALSE, validated_data |-> PyNone,
                error_message |-> Message("", "")]
        ELSE [raised |-> "none", is_valid |-> FALSE, validated_data |-> PyNone,
              error_message |-> Message(ExceptClauses[first].prefix, body.raised)]

\* a caller gives validate_extracted_data a str or another object
ValidateExtractedData ==
    /\ form.pc = "idle"
    /\ \E d \in DataStrs :
         form' = [pc |-> "returned", data_str |-> d, outcome |-> validate_extracted_data(d)]
    /\ UNCHANGED <<dirExists, listing, tieOrder, other, api, session, buildVars, queryVars>>

\* the caller has the tuple
ValidateReturn ==
    /\ form.pc = "returned"
    /\ form' = NoForm
    /\ UNCHANGED <<dirExists, listing, tieOrder, other, api, session, buildVars, queryVars>>

NextValidate == ValidateExtractedData \/ ValidateReturn

SpecValidate == InitOneFile /\ [][NextValidate]_vars


\* ------------------------------------------- the frontend (frontend/app.py)

\* most inputs one session handles
MaxInputs == 3

\* lines 41-44: the letters of the Hebrew block that the texts use
HebrewLetters ==
    {"alef", "bet", "dalet", "he", "vav", "zayin", "het", "tet", "yod", "kaf",
     "final_kaf", "lamed", "mem", "final_mem", "nun", "final_nun", "samekh",
     "ayin", "pe", "qof", "resh", "shin", "tav"}
contains_hebrew(text) == \E i \in 1..Len(text) : text[i] \in HebrewLetters

\* lines 207 and 77: the two texts that mark a summary
SummaryMarkers ==
    {<<"he", "nun", "he", " ", "samekh", "yod", "kaf", "vav", "final_mem", " ", "he", "mem", "yod", "dalet", "ayin", " ", "shin", "lamed", "final_kaf">>,
     <<"H", "e", "r", "e", "'", "s", " ", "a", " ", "s", "u", "m", "m", "a", "r", "y", " ", "o", "f", " ", "y", "o", "u", "r", " ", "i", "n", "f", "o", "r", "m", "a", "t", "i", "o", "n">>}
\* lines 212: the two texts that mark the thanks for a confirmation
ThanksMarkers ==
    [hebrew |-> <<"tav", "vav", "dalet", "he", " ", "ayin", "lamed", " ", "he", "alef", "yod", "shin", "vav", "resh">>,
     english |-> <<"T", "h", "a", "n", "k", " ", "y", "o", "u", " ", "f", "o", "r", " ", "c", "o", "n", "f", "i", "r", "m", "i", "n", "g">>]

\* lines 207-208: some message of the history holds a summary marker
summary_shown_by_assistant(history) ==
    \E i \in 1..Len(history) :
        history[i].role = "assistant" /\ AnyKeyword(SummaryMarkers, history[i].content)
summary_shown(history) ==
    \E i \in 1..Len(history) : AnyKeyword(SummaryMarkers, history[i].content)

\* lines 212-213: some message of the history holds a thanks marker
thanked_in_english(history) ==
    \E i \in 1..Len(history) : Contains(history[i].content, ThanksMarkers.english)
thanked(history) ==
    \E i \in 1..Len(history) :
        AnyKeyword({ThanksMarkers.hebrew, ThanksMarkers.english}, history[i].content)

\* line 215
frontend_confirmation_keywords ==
    {<<"kaf", "final_nun">>, <<"nun", "kaf", "vav", "final_nun">>,
     <<"mem", "alef", "shin", "resh">>, <<"mem", "dalet", "vav", "yod", "qof">>,
     <<"y", "e", "s">>, <<"c", "o", "r", "r", "e", "c", "t">>,
     <<"c", "o", "n", "f", "i", "r", "m", "e", "d">>, <<"r", "i", "g", "h", "t">>}

\* lines 211-216
is_confirmation(history, user_input) ==
    /\ summary_shown(history)
    /\ ~thanked(history)
    /\ AnyKeyword(frontend_confirmation_keywords, Lower(user_input))

\* lines 233-242: the thanks, in the language of the input, naming the HMO if
\* one is known (the sentences after the marker are cut to the HMO's name)
ThankYou(hebrew, hmo_name) ==
    (IF hebrew THEN ThanksMarkers.hebrew ELSE ThanksMarkers.english) \o <<".", " ">> \o hmo_name \o <<"?">>

\* lines 91, 95-109: the phrases of a question for the HMO, and the HMOs in
\* the order of the elif chain
hmo_phrases ==
    {<<"shin", "final_mem", " ", "qof", "vav", "pe", "tav", " ", "he", "het", "vav", "lamed", "yod", "final_mem">>,
     <<"H", "M", "O", " ", "n", "a", "m", "e">>,
     <<"alef", "yod", "zayin", "vav", " ", "qof", "vav", "pe", "tav", " ", "het", "vav", "lamed", "yod", "final_mem">>}
frontend_hmo_names ==
    <<<<"kaf", "lamed", "lamed", "yod", "tav">>, <<"mem", "kaf", "bet", "yod">>,
      <<"mem", "alef", "vav", "het", "dalet", "tav">>, <<"lamed", "alef", "vav", "mem", "yod", "tav">>>>
\* the first HMO of the chain among those a test found, 0 if it found none
FirstHmo(found) ==
    IF found = {} THEN 0 ELSE CHOOSE n \in found : \A m \in found : n <= m

\* lines 88-109: the user's answer to the first HMO question that names an HMO
DirectHmo(history) ==
    LET answer(i) == Lower(history[i + 1].content)
        named(i) == FirstHmo({n \in 1..Len(frontend_hmo_names) :
                                  Contains(answer(i), frontend_hmo_names[n])})
        direct == {i \in 1..(Len(history) - 1) :
                      /\ history[i].role = "assistant"
                      /\ AnyKeyword(hmo_phrases, history[i].content)
                      /\ history[i + 1].role = "user"
                      /\ named(i) # 0}
    IN  IF direct = {} THEN 0 ELSE named(CHOOSE i \in direct : \A j \in direct : i <= j)

\* lines 130-145: the HMO of the last summary that names one
SummaryHmo(history) ==
    LET named(i) ==
            FirstHmo({n \in 1..Len(frontend_hmo_names) :
                \/ Contains(history[i].content,
                            <<"qof", "vav", "pe", "tav", " ", "het", "vav", "lamed", "yod",
                              "final_mem", ":", " ">> \o frontend_hmo_names[n])
                \/ Contains(history[i].content,
                            <<"H", "M", "O", ":", " ">> \o frontend_hmo_names[n])})
        summaries == {i \in 1..Len(history) :
                         /\ \/ Contains(history[i].content, <<"he", "nun", "he", " ", "samekh", "yod", "kaf", "vav", "final_mem", " ", "he", "mem", "yod", "dalet", "ayin", " ", "shin", "lamed", "final_kaf">>)
                            \/ Contains(history[i].content, <<"H", "e", "r", "e", "'", "s", " ", "a", " ", "s", "u", "m", "m", "a", "r", "y">>)
                         /\ named(i) # 0}
    IN  IF summaries = {} THEN 0 ELSE named(CHOOSE i \in summaries : \A j \in summaries : i >= j)

\* lines 74-159, for hmo_name (membership_tier is set the same way, and no
\* text the frontend writes reads it)
ensure_correct_user_info(history, user_info) ==
    IF ~summary_shown(history) THEN user_info
    ELSE IF DirectHmo(history) # 0
      THEN [user_info EXCEPT !.hmo_name = frontend_hmo_names[DirectHmo(history)]]
    ELSE IF SummaryHmo(history) # 0
      THEN [user_info EXCEPT !.hmo_name = frontend_hmo_names[SummaryHmo(history)]]
    ELSE user_info

\* what the user types
UserInputs ==
    {<<"Y", "e", "s">>, <<"kaf", "final_nun">>, <<"mem", "kaf", "bet", "yod">>,
     <<"T", "h", "a", "n", "k", " ", "y", "o", "u", " ", "f", "o", "r", " ", "c", "o", "n", "f", "i", "r", "m", "i", "n", "g", " ", "y", "e", "s">>,
     <<"he", "nun", "he", " ", "samekh", "yod", "kaf", "vav", "final_mem", " ", "he", "mem", "yod", "dalet", "ayin", " ", "shin", "lamed", "final_kaf">>}

\* what requests.post gives: a status and, with 200, the response text and
\* perhaps updated_info; status 0 stands for a RequestException
Replies ==
    {[status |-> 200, response |-> <<"H", "M", "O", " ", "n", "a", "m", "e", "?">>,
      has_updated_info |-> TRUE, hmo_name |-> <<>>],
     [status |-> 200, response |-> <<"H", "e", "r", "e", "'", "s", " ", "a", " ", "s", "u", "m", "m", "a", "r", "y", " ", "o", "f", " ", "y", "o", "u", "r", " ", "i", "n", "f", "o", "r", "m", "a", "t", "i", "o", "n", " ", "H", "M", "O", ":", " ">>
                     \o <<"mem", "kaf", "bet", "yod">>,
      has_updated_info |-> TRUE, hmo_name |-> <<"mem", "kaf", "bet", "yod">>],
     [status |-> 200, response |-> <<"T", "h", "a", "n", "k", " ", "y", "o", "u", " ", "f", "o", "r", " ", "c", "o", "n", "f", "i", "r", "m", "i", "n", "g">>,
      has_updated_info |-> FALSE, hmo_name |-> <<>>],
     [status |-> 500, response |-> <<>>,
      has_updated_info |-> FALSE, hmo_name |-> <<>>],
     [status |-> 0, response |-> <<>>,
      has_updated_info |-> FALSE, hmo_name |-> <<>>]}

\* lines 178-313: one run of the script with an input, from the append of the
\* user's message to the clearing of the processing flag
HandleInput ==
    /\ ~session.processing
    /\ Len(session.handled) < MaxInputs
    /\ \E user_input \in UserInputs, reply \in Replies :
         LET history == Append(session.conversation_history,
                               [role |-> "user", content |-> user_input])
             user_info == ensure_correct_user_info(history, session.user_info)
             request_data == user_info
             confirmation == is_confirmation(history, user_input)
             endpoint == IF confirmation \/ summary_shown(history) THEN "qa"
                                                                   ELSE "collect_info"
             assistant_response ==
                 IF confirmation THEN ThankYou(contains_hebrew(user_input), user_info.hmo_name)
                                 ELSE reply.response
             answered == confirmation \/ reply.status = 200
             updated == IF ~confirmation /\ reply.status = 200 /\ reply.has_updated_info
                             /\ endpoint # "qa"
                          THEN [user_info EXCEPT !.hmo_name = reply.hmo_name]
                          ELSE user_info
         IN  session' =
                 [conversation_history |->
                      IF answered
                        THEN Append(history, [role |-> "assistant",
                                              content |-> assistant_response])
                        ELSE history,
                  user_info |-> updated,
                  processing |-> FALSE,
                  handled |-> Append(session.handled,
                                     [user_input |-> user_input,
                                      at |-> Len(history),
                                      is_confirmation |-> confirmation,
                                      endpoint |-> endpoint,
                                      requested |-> ~confirmation])]
    /\ UNCHANGED <<dirExists, listing, tieOrder, other, api, form, buildVars, queryVars>>

NextFrontend == HandleInput

SpecFrontend == InitOneFile /\ [][NextFrontend]_vars

\* ------------------------------------------------------------------ claims

\* the claims' own reading of the words they use

\* None, the empty string, or whitespace only
OnlyWhitespace(q) == q.none \/ \A i \in 1..Len(q.chars) : q.chars[i] \in Whitespace

\* a call of get_knowledge_base has returned a list for a non-blank query
AnsweredNonBlank == qpc = "returned" /\ ~OnlyWhitespace(query)

\* the knowledge-base directory is absent or holds no matching document
NoKnowledgeBase == ~dirExists \/ \A i \in 1..Len(listing) : listing[i].ext # ".html"

\* the stored vector of a document of the list (names are unique in a directory)
PositionOf(doc) == CHOOSE i \in 1..Len(knowledge_base_documents) : knowledge_base_documents[i] = doc
StoredDistance(doc) == L2Sqr(index.vectors[PositionOf(doc)], query_embedding)

\* the positions of a search answer that are positions of the document list
RECURSIVE InRange(_, _)
InRange(ixs, n) ==
    IF ixs = <<>> THEN <<>>
    ELSE (IF Head(ixs) \in 0..(n - 1) THEN <<Head(ixs)>> ELSE <<>>) \o InRange(Tail(ixs), n)

\* C1: once load_knowledge_base has returned, the index holds as many vectors
\* as the document list has entries, and the vector at position i is what the
\* provider answered for the content of the i-th document
C1_IndexAlignedWithDocuments ==
    phase = "serving" =>
        /\ Len(index.vectors) = Len(knowledge_base_documents)
        /\ \A i \in 1..Len(knowledge_base_documents) :
             \E c \in 1..Len(providerLog) :
                /\ providerLog[c].text = knowledge_base_documents[i][2]
                /\ providerLog[c].vector = index.vectors[i]
C1_Witness ==
    /\ phase = "serving"
    /\ qpc = "returned"
    /\ Len(knowledge_base_documents) >= 3
    /\ index.vectors[1] # index.vectors[2]

\* C2: a non-blank query against fewer than 4 documents returns at most as
\* many entries as there are documents
C2_AtMostAsManyAsDocuments ==
    (AnsweredNonBlank /\ Len(knowledge_base_documents) < K) =>
        Len(result) <= Len(knowledge_base_documents)

\* C3: every position of the search answer outside 0..len(documents)-1 is
\* dropped, and the placeholder is returned when all are dropped
C3_OutOfRangeDropped ==
    (qpc = "returned" /\ qSearches = 1) =>
        LET kept == InRange(indices, Len(knowledge_base_documents)) IN
        result = IF kept = <<>> THEN NotFoundFallback
                 ELSE [i \in 1..Len(kept) |-> knowledge_base_documents[kept[i] + 1]]

\* C4: a query that is None, empty or whitespace only returns exactly the
\* "no specific question" entry, with no provider call and no index search
C4_BlankQueryShortCircuits ==
    (qpc # "idle" /\ OnlyWhitespace(query)) =>
        /\ qpc = "returned"
        /\ Len(result) = 1
        /\ result[1][2].text = "Please ask a specific question about medical services."
        /\ qCalls = 0
        /\ qSearches = 0
C4_Witness ==
    /\ qpc = "returned"
    /\ query = Str(<<" ", "\t">>)
    /\ Len(knowledge_base_documents) >= 2

\* C5: the documents returned for a non-blank query are in ascending order of
\* the squared L2 distance of their stored vectors to the query vector, and no
\* document left out is strictly closer than a returned one
C5_RankedByDistance ==
    AnsweredNonBlank =>
        /\ \A i \in 1..(Len(result) - 1) :
             StoredDistance(result[i]) <= StoredDistance(result[i + 1])
        /\ \A j \in 1..Len(knowledge_base_documents) :
             (\A i \in 1..Len(result) : result[i] # knowledge_base_documents[j]) =>
                \A i \in 1..Len(result) :
                    StoredDistance(result[i]) <= StoredDistance(knowledge_base_documents[j])

\* C6: every call that returns gives a non-empty list of (name, content) pairs
C6_NeverEmpty ==
    qpc = "returned" =>
        /\ Len(result) >= 1
        /\ \A i \in 1..Len(result) : Len(result[i]) = 2
C6_Witness ==
    /\ qpc = "returned"
    /\ qSearches = 1
    /\ Len(knowledge_base_documents) = 1

\* C7: with the directory absent or without a matching document the import
\* ends in ValueError, before any provider call and before the index is
\* allocated, and no query is ever served
C7_EmptyKnowledgeBaseIsFatal ==
    NoKnowledgeBase =>
        /\ phase \in {"init", "failed"}
        /\ phase = "failed" =>
             error \in {"ValueError: directory not found", "ValueError: no HTML files"}
        /\ providerLog = <<>>
        /\ ~providerFailed
        /\ ~index.allocated
        /\ embedding_dimension = 0
        /\ qpc = "idle"
C7_Witness ==
    /\ NoKnowledgeBase
    /\ phase = "failed"
    /\ dirExists
    /\ Len(listing) >= 2

\* C8: a provider failure during the build ends the import with that failure:
\* the document list is never bound and no query is answered
C8_BuildFailureAbortsStartup ==
    providerFailed =>
        /\ phase = "failed"
        /\ error = "provider error"
        /\ knowledge_base_documents = <<>>
        /\ index.vectors = <<>>
        /\ qpc = "idle"
        /\ result = <<>>
C8_Witness ==
    /\ providerFailed
    /\ Len(embeddings) >= 2
    /\ index.allocated

\* C9: a provider failure during a non-blank query raises and returns nothing;
\* index, dimension and document list stay as the build left them, so a later
\* query is answered from them as if the failure had not happened
C9_QueryFailureRaises ==
    /\ qProviderFailed =>
         /\ qpc = "raised"
         /\ qerror = "provider error"
         /\ result = <<>>
         /\ qSearches = 0
    /\ phase = "serving" =>
         /\ index = [allocated |-> TRUE, d |-> built.d, vectors |-> built.vectors]
         /\ embedding_dimension = built.d
         /\ knowledge_base_documents = built.documents
    /\ (qpc = "returned" /\ qSearches = 1) =>
         result = ResultOf(ClosestDocuments(
                     Search([allocated |-> TRUE, d |-> built.d, vectors |-> built.vectors],
                            query_embedding, K),
                     built.documents))
C9_Witness ==
    /\ queryFailedBefore
    /\ qpc = "returned"
    /\ qSearches = 1
    /\ Len(knowledge_base_documents) >= 2

\* C10: the build has completed before any query step, no build step follows
\* a query step, and nothing is answered outside the serving phase: a failed
\* import has raised its exception to the importer
C10_TwoPhaseState ==
    /\ qpc # "idle" => phase = "serving"
    /\ phase # "serving" =>
         /\ result = <<>>
         /\ qCalls = 0
         /\ qSearches = 0
         /\ knowledge_base_documents = <<>>
    /\ phase = "failed" => error # "none"
    /\ phase = "serving" =>
         /\ error = "none"
         /\ Len(embeddings) = Len(documents)
         /\ index.vectors = embeddings
         /\ knowledge_base_documents = documents
C10_TwoPhaseLifecycle ==
    /\ []C10_TwoPhaseState
    /\ [][/\ phase = "serving" => UNCHANGED buildVars
          /\ phase # "serving" => UNCHANGED queryVars]_vars
C10_Witness ==
    /\ phase = "serving"
    /\ qpc = "returned"
    /\ qSearches = 1
    /\ Len(knowledge_base_documents) >= 2

\* C11: after startup the vectors of the index, the dimension and the document
\* list stay as the build left them, whatever operation of the module runs
C11_ReadOnlyAfterStartup ==
    phase = "serving" =>
        /\ index.vectors = built.vectors
        /\ index.d = built.d
        /\ embedding_dimension = built.d
        /\ knowledge_base_documents = built.documents

\* C12: D is the length of the first document embedding obtained and stays so;
\* every vector of a built index has length D, and a later document embedding
\* of another length makes the build fail with nothing added to the index
C12_DimensionFixedByFirst ==
    /\ providerLog = <<>> => embedding_dimension = 0
    /\ providerLog # <<>> =>
         /\ embedding_dimension = Len(providerLog[1].vector)
         /\ index.allocated
         /\ index.d = embedding_dimension
    /\ phase = "serving" =>
         \A i \in 1..Len(index.vectors) : Len(index.vectors[i]) = embedding_dimension
    /\ (\E i \in 1..Len(providerLog) :
            Len(providerLog[i].vector) # Len(providerLog[1].vector)) =>
         /\ phase \in {"embedding", "failed"}
         /\ index.vectors = <<>>
         /\ knowledge_base_documents = <<>>
         /\ (phase = "failed" /\ ~providerFailed) => error = "ValueError: vstack"
C12_Witness ==
    /\ phase = "failed"
    /\ error = "ValueError: vstack"
    /\ Len(providerLog) >= 3
    /\ Len(providerLog[1].vector) = 2
    /\ Len(providerLog[3].vector) = 1

\* C13: a non-blank query whose embedding has not the index's dimension D
\* fails: the call raises, returns no document, and no search answer exists
C13_QueryDimensionMismatchFails ==
    (/\ qpc \in {"returned", "raised"}
     /\ ~qProviderFailed
     /\ ~OnlyWhitespace(query)
     /\ Len(query_embedding) # embedding_dimension) =>
        /\ qpc = "raised"
        /\ qerror = "AssertionError"
        /\ result = <<>>
        /\ indices = <<>>
C13_Witness ==
    /\ qpc = "raised"
    /\ qerror = "AssertionError"
    /\ Len(query_embedding) = 1
    /\ embedding_dimension = 2
    /\ Len(knowledge_base_documents) >= 2

C16_AtMostTopThree ==
    (qpc = "returned" /\ qSearches = 1 /\ result # NotFoundFallback) =>
        Len(result) <= TopDocuments

\* C17: the document list holds exactly one (name, content) entry for each
\* .html file of the directory, with the file's name and its full content, in
\* the order of the listing, and no entry for any other file
C17_DocumentsAreTheHtmlFiles ==
    (phase \in {"embedding", "serving"} \/ documents # <<>>) =>
        /\ \A i \in 1..Len(listing) :
             listing[i].ext = ".html" =>
                /\ Cardinality({j \in 1..Len(documents) : documents[j][1] = listing[i]}) = 1
                /\ \A j \in 1..Len(documents) :
                     documents[j][1] = listing[i] =>
                        documents[j][2] = FileContent(listing[i].stem)
        /\ \A j \in 1..Len(documents) :
             /\ Len(documents[j]) = 2
             /\ \E i \in 1..Len(listing) :
                  listing[i] = documents[j][1] /\ listing[i].ext = ".html"
        /\ \A j, k \in 1..Len(documents) :
             j < k => documents[j][1].stem < documents[k][1].stem
        /\ phase = "serving" => knowledge_base_documents = documents
C17_Witness ==
    /\ phase = "serving"
    /\ Len(knowledge_base_documents) >= 2
    /\ Len(listing) > Len(knowledge_base_documents) + 1
    /\ listing[1].ext = ".txt"

\* C18: a non-blank query calls the provider exactly once, before the index
\* search; a failed call ends the query: no second call, no vector, no search
C18_OneProviderCallPerQuery ==
    (qpc # "idle" /\ ~OnlyWhitespace(query)) =>
        /\ qCalls = 1
        /\ qpc = "embedded" => (qSearches = 0 /\ query_embedding # <<>>)
        /\ qSearches = 1 => (qpc \in {"returned", "raised"} /\ query_embedding # <<>>)
        /\ qpc = "returned" => qSearches = 1
        /\ qProviderFailed =>
             /\ qpc = "raised"
             /\ query_embedding = <<>>
             /\ qSearches = 0
             /\ indices = <<>>
C18_Witness ==
    /\ qpc = "raised"
    /\ qProviderFailed
    /\ qCalls = 1
    /\ query = Str(<<" ", "q", " ">>)

\* C15: two callers of get_knowledge_base whose embedding and search steps
\* interleave freely each get what they would get alone against the index
\* and the document list the build left, and neither changes them
AloneOutcome(c) ==
    LET fits == Len(c.query_embedding) = built.d
        alone == ResultOf(ClosestDocuments(
                     Search([vectors |-> built.vectors], c.query_embedding, K),
                     built.documents))
    IN  /\ (c.qpc = "returned" /\ OnlyWhitespace(c.query)) => c.result = NoQuestionFallback
        /\ (c.qpc = "returned" /\ ~OnlyWhitespace(c.query)) => (fits /\ c.result = alone)
        /\ (c.qpc = "raised" /\ ~c.qProviderFailed) => ~fits
        /\ (c.qpc = "embedded" /\ fits) => c.result = <<>>
C15_ConcurrentQueriesIsolated ==
    phase = "serving" =>
        /\ index.vectors = built.vectors
        /\ index.d = built.d
        /\ knowledge_base_documents = built.documents
        /\ AloneOutcome(other)
        /\ AloneOutcome([qpc |-> qpc, query |-> query, query_embedding |-> query_embedding,
                         result |-> result, qProviderFailed |-> qProviderFailed])
C15_Witness ==
    /\ qpc = "returned"
    /\ qSearches = 1
    /\ other.qpc = "embedded"
    /\ Len(other.query_embedding) = index.d
    /\ other.query_embedding # query_embedding
    /\ Len(knowledge_base_documents) = 2
    /\ index.vectors[1] # index.vectors[2]

\* C20: get_openai_response with a phase that is neither "info_collection" nor
\* "qna" raises ValueError, and has called neither get_knowledge_base nor the
\* embedding provider nor the chat model; the two known phases never raise it
C20_InvalidPhaseRaisesFirst ==
    api.endpoint = "get_openai_response" =>
        IF api.phase \in {"info_collection", "qna"}
          THEN api.outcome.raised # "ValueError"
          ELSE /\ api.outcome.raised = "ValueError"
               /\ api.outcome.retrievals = 0
               /\ api.outcome.calls = <<>>
C20_Witness ==
    /\ api.endpoint = "get_openai_response"
    /\ api.phase = "summary"
    /\ api.outcome.raised = "ValueError"
    /\ api.query = Str(<<"q">>)
    /\ api.user_info.conversation_history # <<>>

\* C19: handling requests leaves the index, the dimension and the document
\* list as the build left them, and status, body and provider calls of every
\* response are those the request's payload and the providers' answers give
\* against that state, however many requests came before
AnswerOf(calls, provider, unasked) ==
    IF \E i \in 1..Len(calls) : calls[i].provider = provider
      THEN calls[CHOOSE i \in 1..Len(calls) : calls[i].provider = provider].answer
      ELSE unasked
C19_FromPayloadAlone(a) ==
    LET u == a.user_info
        h == u.conversation_history
        emb == AnswerOf(a.calls, "embeddings", [ok |-> FALSE, v |-> <<>>])
        chat == AnswerOf(a.calls, "chat", [ok |-> FALSE, text |-> ""])
        r == get_openai_response(u, IF a.endpoint = "qa" THEN "qna" ELSE "info_collection",
                                 LatestQuery(u), emb, chat,
                                 [d |-> built.d, vectors |-> built.vectors], built.documents)
    IN  IF a.endpoint = "check_confirmation"
          THEN /\ a.calls = <<>>
               /\ a.status = 200
               /\ h = <<>> => ~a.body.is_confirmation
               /\ a.body.is_confirmation =>
                    \E kw \in confirmation_keywords : Contains(Lower(h[Len(h)].content), kw)
          ELSE /\ a.calls = r.calls
               /\ a.status = (IF r.raised = "none" THEN 200 ELSE 500)
               /\ r.raised # "none" => a.body = [detail |-> r.raised]
               /\ r.raised = "none" => a.body.response = chat.text
               /\ (r.raised = "none" /\ a.endpoint = "collect_info") =>
                    /\ a.body.updated_info.conversation_history = h
                    /\ u.age # 0 => a.body.updated_info.age = u.age
C19_StatelessBackend ==
    /\ phase = "serving" =>
         /\ index.vectors = built.vectors
         /\ index.d = built.d
         /\ embedding_dimension = built.d
         /\ knowledge_base_documents = built.documents
    /\ api.endpoint = "health" =>
         (api.status = 200 /\ api.body = [status |-> "healthy"] /\ api.calls = <<>>)
    /\ api.endpoint \in Endpoints \ {"health"} => C19_FromPayloadAlone(api)
C19_Witness ==
    /\ api.endpoint = "qa"
    /\ api.served >= 1
    /\ api.status = 200
    /\ Len(api.calls) = 2
    /\ Len(knowledge_base_documents) = 2

\* C23: during the build the provider is called once per document, in the
\* order of the document list; the index holds no vector until every document
\* has been embedded and then receives all of them in one step; after a failed
\* call no further call is made and the index stays without vectors
C23_BuildState ==
    /\ Len(providerLog) <= Len(documents)
    /\ \A i \in 1..Len(providerLog) : providerLog[i].text = documents[i][2]
    /\ phase \in {"init", "embedding", "failed"} => index.vectors = <<>>
    /\ phase = "serving" =>
         /\ ~providerFailed
         /\ Len(providerLog) = Len(documents)
         /\ index.vectors = [i \in 1..Len(documents) |-> providerLog[i].vector]
    /\ providerFailed =>
         /\ phase = "failed"
         /\ Len(providerLog) < Len(documents)
C23_EmbedAllThenInsertOnce ==
    /\ []C23_BuildState
    /\ [][/\ providerFailed => UNCHANGED <<providerLog, index>>
          /\ index'.vectors # index.vectors =>
               /\ index.vectors = <<>>
               /\ Len(providerLog) = Len(documents)
               /\ UNCHANGED providerLog
               /\ Len(index'.vectors) = Len(documents)
          /\ Len(providerLog') \in {Len(providerLog), Len(providerLog) + 1}]_vars
C23_Witness ==
    /\ phase = "failed"
    /\ providerFailed
    /\ Len(documents) = 3
    /\ Len(providerLog) = 1
    /\ index.allocated
    /\ index.vectors = <<>>

\* C24: the list returned for a non-blank query against an index built from
\* n >= 1 documents holds no document twice
C24_NoDocumentTwice ==
    (AnsweredNonBlank /\ Len(knowledge_base_documents) >= 1) =>
        \A i, j \in 1..Len(result) : result[i] = result[j] => i = j

\* the messages a chat-model call of the request was given, if one was made
ChatCallsOf(calls) == {i \in 1..Len(calls) : calls[i].provider = "chat"}
EmbeddingCallsOf(calls) == {i \in 1..Len(calls) : calls[i].provider = "embeddings"}

\* C22: for a history as the frontend sends it (its own assistant messages and
\* the user's, an assistant greeting first and the user's input last), the
\* messages given to the chat model are the system prompt followed by every
\* message of the history, once each and in order
C22_WholeHistorySent ==
    (/\ api.endpoint \in {"collect_info", "qa"}
     /\ api.user_info.conversation_history # <<>>
     /\ \A i \in 1..Len(api.user_info.conversation_history) :
            api.user_info.conversation_history[i].role \in {"user", "assistant"}
     /\ api.user_info.conversation_history[1].role = "assistant"
     /\ api.user_info.conversation_history[Len(api.user_info.conversation_history)].role = "user") =>
        \A c \in ChatCallsOf(api.calls) :
            LET h == api.user_info.conversation_history
                sent == api.calls[c].input
            IN  /\ sent[1].role = "system"
                /\ Tail(sent) = [i \in 1..Len(h) |-> [role |-> h[i].role, text |-> h[i].content]]

\* C25: a /qa request with an empty conversation history asks with the empty
\* string: the knowledge given to the chat model is the one "no specific
\* question" placeholder and the embedding provider is not called
C25_EmptyHistoryAsksNothing ==
    (api.endpoint = "qa" /\ api.user_info.conversation_history = <<>>) =>
        /\ EmbeddingCallsOf(api.calls) = {}
        /\ Len(api.calls) = 1
        /\ api.calls[1].provider = "chat"
        /\ api.calls[1].input[1].text.kind = "qna"
        /\ api.calls[1].input[1].text.query = Str(<<>>)
        /\ api.calls[1].input[1].text.context = NoQuestionFallback
        /\ Len(api.calls[1].input[1].text.context) = 1
        /\ api.status = (IF api.calls[1].answer.ok THEN 200 ELSE 500)
C25_Witness ==
    /\ api.endpoint = "qa"
    /\ api.user_info.conversation_history = <<>>
    /\ api.status = 200
    /\ Len(knowledge_base_documents) = 2

\* C26: with phase "qna" get_openai_response calls get_knowledge_base once,
\* and any chat-model call comes after it, with the list it returned in the
\* prompt; with phase "info_collection" neither get_knowledge_base nor the
\* embedding provider is called
C26_RetrievalOnceBeforeChat ==
    api.endpoint = "get_openai_response" =>
        LET o == api.outcome
            kb == KnowledgeBaseCall(api.query, AnswerOf(o.calls, "embeddings",
                                                        [ok |-> FALSE, v |-> <<>>]),
                                    [d |-> built.d, vectors |-> built.vectors],
                                    built.documents)
        IN  /\ Cardinality(ChatCallsOf(o.calls)) <= 1
            /\ Cardinality(EmbeddingCallsOf(o.calls)) <= 1
            /\ api.phase = "qna" =>
                 /\ o.retrievals = 1
                 /\ \A c \in ChatCallsOf(o.calls) :
                      /\ c = Len(o.calls)
                      /\ \A g \in EmbeddingCallsOf(o.calls) : g < c
                      /\ kb.raised = "none"
                      /\ o.calls[c].input[1].text.kind = "qna"
                      /\ o.calls[c].input[1].text.context = kb.value
                 /\ ChatCallsOf(o.calls) = {} => kb.raised # "none"
            /\ api.phase = "info_collection" =>
                 /\ o.retrievals = 0
                 /\ EmbeddingCallsOf(o.calls) = {}
                 /\ Len(o.calls) = 1
                 /\ o.calls[1].provider = "chat"
                 /\ o.calls[1].input[1].text.kind = "info_collection"
C26_Witness ==
    /\ api.endpoint = "get_openai_response"
    /\ api.phase = "qna"
    /\ api.outcome.raised = "none"
    /\ Len(api.outcome.calls) = 2
    /\ api.outcome.calls[1].provider = "embeddings"
    /\ api.outcome.calls[2].provider = "chat"

C21_Loaded == json_loads(form.data_str.lexemes)
C21_NeverRaisesTwoForms ==
    form.pc = "returned" =>
        LET o == form.outcome
            second == /\ ~o.is_valid
                      /\ o.validated_data.t = "none"
                      /\ o.error_message # Message("", "")
                      /\ o.error_message.prefix # ""
        IN  /\ o.raised = "none"
            /\ \/ /\ o.is_valid
                  /\ o.validated_data.t # "none"
                  /\ o.error_message = Message("", "")
               \/ second
            /\ form.data_str.t = "text" =>
                 /\ C21_Loaded.raised # "none" => second
                 /\ (/\ C21_Loaded.raised = "none"
                     /\ C21_Loaded.value.t = "dict"
                     /\ DOMAIN C21_Loaded.value.items \cap (hebrew_keys \cup english_keys) = {})
                      => second
                 /\ (/\ C21_Loaded.raised = "none"
                     /\ C21_Loaded.value.t = "dict"
                     /\ \E k \in DOMAIN C21_Loaded.value.items \cap (hebrew_keys \cup english_keys) :
                            \/ C21_Loaded.value.items[k].t # "str"
                            \/ \E i \in 1..Len(C21_Loaded.value.items[k].s) :
                                  /\ k \notin {<<"f", "i", "r", "s", "t", "N", "a", "m", "e">>}
                                  /\ ~IsDigit(C21_Loaded.value.items[k].s[i]))
                      => second
C21_Witness ==
    /\ form.pc = "returned"
    /\ form.data_str = PyText(<<NumberLiteral>>)
    /\ ~form.outcome.is_valid
    /\ form.outcome.error_message = Message("error: ", "TypeError")

\* the history as it was when the n-th input was routed
HistoryAt(n) == SubSeq(session.conversation_history, 1, session.handled[n].at)
MarkerIn(markers, history) ==
    \E i \in 1..Len(history) : \E m \in markers : Contains(history[i].content, m)

\* C28: an input that is not a locally handled confirmation is sent to "qa"
\* if some message of the history holds the summary marker and to
\* "collect_info" otherwise; the history only grows, and once an input went
\* to "qa" no later input of the session goes to "collect_info"
C28_Routes ==
    /\ \A n \in 1..Len(session.handled) :
         LET r == session.handled[n]
         IN  /\ HistoryAt(n)[r.at] = [role |-> "user", content |-> r.user_input]
             /\ ~r.is_confirmation =>
                  /\ r.requested
                  /\ r.endpoint = IF MarkerIn(SummaryMarkers, HistoryAt(n))
                                    THEN "qa" ELSE "collect_info"
    /\ \A n \in 1..Len(session.handled), m \in 1..Len(session.handled) :
         (n < m /\ session.handled[n].requested /\ session.handled[n].endpoint = "qa")
           => ~(session.handled[m].requested /\ session.handled[m].endpoint = "collect_info")
C28_AppendOnly ==
    /\ Len(session'.conversation_history) >= Len(session.conversation_history)
    /\ SubSeq(session'.conversation_history, 1, Len(session.conversation_history))
         = session.conversation_history
C28_QaIsFinal == []C28_Routes /\ [][C28_AppendOnly]_vars
C28_Witness ==
    /\ Len(session.handled) = 3
    /\ session.handled[1].requested /\ session.handled[1].endpoint = "collect_info"
    /\ session.handled[2].requested /\ session.handled[2].endpoint = "qa"
    /\ session.handled[3].requested /\ session.handled[3].endpoint = "qa"

====
